---- MODULE Spec2Model ----
(***************************************************************************)
(* A model of the JSON value-tree library in                               *)
(* src/ballistica/generic/json.cc: the heap of nodes and strings, the tree *)
(* editor, the parser, the printer and the minifier.                       *)
(*                                                                         *)
(* Bytes are integers (ASCII codes); a C string is the sequence of its     *)
(* bytes without the terminating NUL; a pointer is a heap address, NULL    *)
(* for the null pointer; a text offset is 0-based as in the source.        *)
(***************************************************************************)
EXTENDS Integers, Sequences, FiniteSets, TLC

VARIABLES
  mem,      \* the heap: address -> block (free, a cJSON node, or a string)
  roots,    \* the nodes the caller holds and owns (created or detached, in no container)
  members,  \* history: for each node, the items appended to it and not yet detached or replaced
  refTo,    \* history: for each reference node, the item it was created from
  surv,     \* history: items that were referenced from a container that has since been deleted
  dfree,    \* history: cJSON_free was called on a block that was not allocated
  op,       \* history: the last call, its arguments and its result
  track,    \* whether op is recorded (it is where a claim reads it)
  calls,    \* history: the number of calls made, where the caller's calls are bounded
  ep,       \* the static error pointer: an offset into the text last parsed, or NoPos
  input,    \* the text handed to the parser or the minifier
  result    \* what the last call on a text or for a text returned

vars == <<mem, roots, members, refTo, surv, dfree, op, track, calls, ep, input, result>>

----------------------------------------------------------------------------
(* Bounds of the model. *)

MaxAddr == 6      \* heap blocks that can be live at once
MaxCalls == 7     \* calls the caller makes, where they are bounded
MaxWhich == 2     \* largest index passed to the array operations
MaxHeld == 2      \* nodes the caller holds when it creates another, where that is bounded
MaxOpen == 2      \* containers opened around the core of a text
MaxFailAt == 3    \* the latest allocation of a call that the allocator may refuse
MaxBuild == 6     \* calls the caller makes to build a tree
MaxEdits == 5     \* calls the caller makes when it may use every operation
MaxCount == 2     \* the largest count given to a bulk constructor
MaxText == 5      \* the length of the texts minified, the examples apart
MaxParses == 2   \* parse calls in a row

NULL == 0
NoPos == -1       \* the null pointer, for a pointer into a text
INT_MAX == 2147483647
INT_MIN == -2147483647 - 1

Addr == 1..MaxAddr

(* ASCII codes of the bytes the model names. *)
Asc == [nul |-> 0, tab |-> 9, lf |-> 10, cr |-> 13, space |-> 32, quote |-> 34,
        star |-> 42, plus |-> 43, comma |-> 44, minus |-> 45, dot |-> 46,
        slash |-> 47, d0 |-> 48, d1 |-> 49, d9 |-> 57, colon |-> 58,
        A |-> 65, B |-> 66, E |-> 69, F |-> 70,
        lbracket |-> 91, bslash |-> 92, rbracket |-> 93,
        a |-> 97, b |-> 98, e |-> 101, f |-> 102, l |-> 108, n |-> 110,
        r |-> 114, s |-> 115, t |-> 116, u |-> 117, x |-> 120,
        lbrace |-> 123, rbrace |-> 125]

----------------------------------------------------------------------------
(* The heap. *)

FreeBlock == [kind |-> "free"]

(* A number: m * 10^e, with m not divisible by 10 unless it is 0. *)
Zero == [m |-> 0, e |-> 0]

(* cJSON_New_Item's memset: every field zero, and type 0 is cJSON_False. *)
ZeroNode == [kind |-> "node", type |-> "False", isref |-> FALSE,
             valueint |-> 0, valuedouble |-> Zero,
             valuestring |-> NULL, string |-> NULL,
             child |-> NULL, next |-> NULL, prev |-> NULL]

(* A block that holds a C string: bytes is the string, cap the size asked of  *)
(* the allocator, used the number of bytes written from its start.           *)
StrBlock(bytes) == [kind |-> "str", bytes |-> bytes, cap |-> Len(bytes) + 1,
                    used |-> Len(bytes) + 1]

EmptyHeap == [p \in Addr |-> FreeBlock]

Live(m) == {p \in Addr : m[p].kind # "free"}

(* The state a call threads through its allocations and frees:                *)
(*   n      allocations requested so far in this call                        *)
(*   failAt the allocation that returns null (0: none)                       *)
(*   failed some allocation of this call returned null                       *)
(*   freed  the blocks this call has freed                                   *)
(*   dfree  this call freed a block that was not allocated                   *)
Call(m, failAt) == [mem |-> m, n |-> 0, failAt |-> failAt, failed |-> FALSE,
                    freed |-> {}, dfree |-> FALSE]

Min(S) == CHOOSE p \in S : \A q \in S : p <= q

(* body of value: the value is computed once, however often body names it. *)
Let(value, body(_)) == body(value)

(* cJSON_malloc: null when the allocator fails (injected, or no block left). *)
MallocPtr(st) ==
  IF st.n + 1 = st.failAt \/ Live(st.mem) = Addr THEN NULL
  ELSE Min(Addr \ Live(st.mem))

cJSON_free(st, p) ==
  IF st.mem[p].kind = "free"
  THEN [st EXCEPT !.dfree = TRUE]
  ELSE [st EXCEPT !.mem[p] = FreeBlock, !.freed = @ \cup {p}]

(* cJSON_New_Item: the state after the call and the pointer it returns. *)
cJSON_New_Item(st) ==
  LET p == MallocPtr(st) IN
  IF p = NULL THEN [st |-> [st EXCEPT !.n = @ + 1, !.failed = TRUE], p |-> NULL]
  ELSE [st |-> [st EXCEPT !.n = @ + 1, !.mem[p] = ZeroNode], p |-> p]

cJSON_strdup(st, bytes) ==
  LET p == MallocPtr(st) IN
  IF p = NULL THEN [st |-> [st EXCEPT !.n = @ + 1, !.failed = TRUE], p |-> NULL]
  ELSE [st |-> [st EXCEPT !.n = @ + 1, !.mem[p] = StrBlock(bytes)], p |-> p]

----------------------------------------------------------------------------
(* Strings. *)

ByteAt(s, i) == IF i >= 1 /\ i <= Len(s) THEN s[i] ELSE 0

tolower(ch) == IF ch >= 65 /\ ch <= 90 THEN ch + 32 ELSE ch

RECURSIVE strcasecmp_from(_, _, _)
strcasecmp_from(s1, s2, i) ==
  IF tolower(ByteAt(s1, i)) = tolower(ByteAt(s2, i))
  THEN IF ByteAt(s1, i) = 0 THEN 0 ELSE strcasecmp_from(s1, s2, i + 1)
  ELSE tolower(ByteAt(s1, i)) - tolower(ByteAt(s2, i))

(* s1 is a pointer (a member's key, possibly null), s2 the caller's string. *)
cJSON_strcasecmp(m, s1, s2) ==
  IF s1 = NULL THEN 1 ELSE strcasecmp_from(m[s1].bytes, s2, 1)

----------------------------------------------------------------------------
(* Deletion. *)

(* cJSON_Delete without the test of cJSON_IsReference. *)
RECURSIVE cJSON_Delete_into_references(_, _)
cJSON_Delete_into_references(st, c) ==
  IF c = NULL THEN st
  ELSE IF st.mem[c].kind # "node" THEN [st EXCEPT !.dfree = TRUE]
  ELSE LET node == st.mem[c]
           s1 == IF node.child # NULL
                 THEN cJSON_Delete_into_references(st, node.child) ELSE st
           s2 == IF node.valuestring # NULL
                 THEN cJSON_free(s1, node.valuestring) ELSE s1
           s3 == IF node.string # NULL THEN cJSON_free(s2, node.string) ELSE s2
           s4 == cJSON_free(s3, c)
       IN cJSON_Delete_into_references(s4, node.next)

RECURSIVE cJSON_Delete(_, _)
cJSON_Delete(st, c) ==
  IF c = NULL THEN st
  ELSE IF st.mem[c].kind # "node" THEN [st EXCEPT !.dfree = TRUE]  \* c dangles
  ELSE LET node == st.mem[c]
           s1 == IF ~node.isref /\ node.child # NULL
                 THEN cJSON_Delete(st, node.child) ELSE st
           s2 == IF ~node.isref /\ node.valuestring # NULL
                 THEN cJSON_free(s1, node.valuestring) ELSE s1
           s3 == IF node.string # NULL THEN cJSON_free(s2, node.string) ELSE s2
           s4 == cJSON_free(s3, c)
       IN cJSON_Delete(s4, node.next)

----------------------------------------------------------------------------
(* The sibling list. *)

(* while (c && c->next) c = c->next; *)
RECURSIVE LastOf(_, _)
LastOf(m, c) == IF c # NULL /\ m[c].next # NULL THEN LastOf(m, m[c].next) ELSE c

(* while (c && which > 0) { c = c->next; which--; } *)
RECURSIVE ItemAt(_, _, _)
ItemAt(m, c, which) ==
  IF c # NULL /\ which > 0 THEN ItemAt(m, m[c].next, which - 1) ELSE c

(* while (c && cJSON_strcasecmp(c->string, string)) { i++; c = c->next; } *)
RECURSIVE FindKey(_, _, _, _)
FindKey(m, c, string, i) ==
  IF c # NULL /\ cJSON_strcasecmp(m, m[c].string, string) # 0
  THEN FindKey(m, m[c].next, string, i + 1)
  ELSE [c |-> c, i |-> i]

suffix_object_no_prev(m, prev, item) == [m EXCEPT ![prev].next = item]

suffix_object(m, prev, item) ==
  [m EXCEPT ![prev].next = item, ![item].prev = prev]

create_reference(st, item) ==
  LET r == cJSON_New_Item(st) IN
  IF r.p = NULL THEN r
  ELSE [st |-> [r.st EXCEPT !.mem[r.p] =
                  [r.st.mem[item] EXCEPT !.string = NULL, !.isref = TRUE,
                                         !.next = NULL, !.prev = NULL]],
        p |-> r.p]

cJSON_AddItemToArray(m, array, item) ==
  IF item = NULL THEN m
  ELSE IF m[array].child = NULL THEN [m EXCEPT ![array].child = item]
  ELSE suffix_object(m, LastOf(m, m[array].child), item)

cJSON_AddItemToObject(st, object, string, item) ==
  IF item = NULL THEN st
  ELSE LET s1 == IF st.mem[item].string # NULL
                 THEN cJSON_free(st, st.mem[item].string) ELSE st
           d  == cJSON_strdup(s1, string)
           s2 == [d.st EXCEPT !.mem[item].string = d.p]
       IN [s2 EXCEPT !.mem = cJSON_AddItemToArray(s2.mem, object, item)]

cJSON_AddItemReferenceToArray(st, array, item) ==
  LET r == create_reference(st, item) IN
  [st |-> [r.st EXCEPT !.mem = cJSON_AddItemToArray(r.st.mem, array, r.p)],
   p |-> r.p]

cJSON_AddItemReferenceToObject(st, object, string, item) ==
  LET r == create_reference(st, item) IN
  [st |-> cJSON_AddItemToObject(r.st, object, string, r.p), p |-> r.p]

cJSON_DetachItemFromArray(m, array, which) ==
  LET c == ItemAt(m, m[array].child, which) IN
  IF c = NULL THEN [mem |-> m, ret |-> NULL]
  ELSE LET m1 == IF m[c].prev # NULL
                 THEN [m EXCEPT ![m[c].prev].next = m[c].next] ELSE m
           m2 == IF m1[c].next # NULL
                 THEN [m1 EXCEPT ![m1[c].next].prev = m1[c].prev] ELSE m1
           m3 == IF c = m2[array].child
                 THEN [m2 EXCEPT ![array].child = m2[c].next] ELSE m2
       IN [mem |-> [m3 EXCEPT ![c].prev = NULL, ![c].next = NULL], ret |-> c]

cJSON_DetachItemFromObject(m, object, string) ==
  LET f == FindKey(m, m[object].child, string, 0) IN
  IF f.c # NULL THEN cJSON_DetachItemFromArray(m, object, f.i)
  ELSE [mem |-> m, ret |-> NULL]

(* The state after the call, and the member it replaced (NULL: none). *)
cJSON_ReplaceItemInArray(st, array, which, newitem) ==
  LET m == st.mem
      c == ItemAt(m, m[array].child, which) IN
  IF c = NULL THEN [st |-> st, old |-> NULL]
  ELSE LET m1 == [m EXCEPT ![newitem].next = m[c].next, ![newitem].prev = m[c].prev]
           m2 == IF m1[newitem].next # NULL
                 THEN [m1 EXCEPT ![m1[newitem].next].prev = newitem] ELSE m1
           m3 == IF c = m2[array].child
                 THEN [m2 EXCEPT ![array].child = newitem]
                 ELSE [m2 EXCEPT ![m2[newitem].prev].next = newitem]
           m4 == [m3 EXCEPT ![c].next = NULL, ![c].prev = NULL]
       IN [st |-> cJSON_Delete([st EXCEPT !.mem = m4], c), old |-> c]

cJSON_ReplaceItemInObject(st, object, string, newitem) ==
  LET f == FindKey(st.mem, st.mem[object].child, string, 0) IN
  IF f.c # NULL
  THEN LET d == cJSON_strdup(st, string) IN
       cJSON_ReplaceItemInArray([d.st EXCEPT !.mem[newitem].string = d.p],
                                object, f.i, newitem)
  ELSE [st |-> st, old |-> NULL]

----------------------------------------------------------------------------
(* Numbers.  A double is modelled exactly, as m * 10^e.                    *)

RECURSIVE Pow10(_)
Pow10(k) == IF k <= 0 THEN 1 ELSE 10 * Pow10(k - 1)

Abs(i) == IF i < 0 THEN -i ELSE i

RECURSIVE Norm(_)
Norm(num) ==
  IF num.m = 0 THEN Zero
  ELSE IF num.m % 10 = 0 THEN Norm([m |-> num.m \div 10, e |-> num.e + 1])
  ELSE num

(* d <= INT_MAX && d >= INT_MIN *)
InIntRange(num) ==
  \/ num.e <= 0
  \/ num.e <= 9 /\ Abs(num.m) <= INT_MAX \div Pow10(num.e)

(* The integer part of a number that is in int range (truncation toward 0). *)
Trunc(num) ==
  IF num.e >= 0 THEN num.m * Pow10(num.e)
  ELSE IF -num.e > 9 THEN 0
  ELSE IF num.m >= 0 THEN num.m \div Pow10(-num.e)
  ELSE -((-num.m) \div Pow10(-num.e))

(* (int)num: the conversion is undefined when the value does not fit an int; *)
(* builds then produce INT_MIN (x86) or the saturated value (ARM).           *)
IntCast(num) ==
  IF InIntRange(num) THEN {Trunc(num)} ELSE {INT_MIN, INT_MAX}

----------------------------------------------------------------------------
(* The constructors: the state after the call and the pointer returned. *)

CreateOfType(st, type) ==
  LET r == cJSON_New_Item(st) IN
  IF r.p = NULL THEN r
  ELSE [st |-> [r.st EXCEPT !.mem[r.p].type = type], p |-> r.p]

cJSON_CreateNull(st) == CreateOfType(st, "NULL")
cJSON_CreateTrue(st) == CreateOfType(st, "True")
cJSON_CreateFalse(st) == CreateOfType(st, "False")
cJSON_CreateBool(st, b) == CreateOfType(st, IF b THEN "True" ELSE "False")
cJSON_CreateArray(st) == CreateOfType(st, "Array")
cJSON_CreateObject(st) == CreateOfType(st, "Object")

(* valueint is one of the outcomes of (int)num. *)
cJSON_CreateNumber(st, num, valueint) ==
  LET r == cJSON_New_Item(st) IN
  IF r.p = NULL THEN r
  ELSE [st |-> [r.st EXCEPT !.mem[r.p].type = "Number",
                            !.mem[r.p].valuedouble = num,
                            !.mem[r.p].valueint = valueint],
        p |-> r.p]

cJSON_CreateString(st, string) ==
  LET r == cJSON_New_Item(st) IN
  IF r.p = NULL THEN r
  ELSE LET d == cJSON_strdup([r.st EXCEPT !.mem[r.p].type = "String"], string) IN
       [st |-> [d.st EXCEPT !.mem[r.p].valuestring = d.p], p |-> r.p]

(* n = cJSON_CreateNumber(numbers[i]) or cJSON_CreateString(strings[i]) *)
CreateItem(st, it) ==
  IF it.kind = "number" THEN cJSON_CreateNumber(st, it.num, it.valueint)
  ELSE cJSON_CreateString(st, it.string)

(* The loop of the bulk constructors from its i-th round on (i from 1), p   *)
(* the node of the round before.  suffix_object(p, n) with p or n null      *)
(* writes through a null pointer (ub).                                      *)
RECURSIVE bulk_from(_, _, _, _, _)
bulk_from(st, a, p, items, i) ==
  IF i > Len(items) THEN [st |-> st, p |-> a, ub |-> FALSE]
  ELSE Let(CreateItem(st, items[i]), LAMBDA n :
         IF i = 1 THEN bulk_from([n.st EXCEPT !.mem[a].child = n.p], a, n.p, items, 2)
         ELSE IF p = NULL \/ n.p = NULL THEN [st |-> n.st, p |-> a, ub |-> TRUE]
         ELSE bulk_from([n.st EXCEPT !.mem = suffix_object(@, p, n.p)],
                        a, n.p, items, i + 1))

CreateArrayOf(st, items) ==
  Let(cJSON_CreateArray(st), LAMBDA a :
    IF a.p = NULL THEN [st |-> a.st, p |-> NULL, ub |-> FALSE]
    ELSE bulk_from(a.st, a.p, NULL, items, 1))

NumberItem(num, sat) ==
  [kind |-> "number", num |-> num,
   valueint |-> IF InIntRange(num) THEN Trunc(num) ELSE sat]

(* numbers are ints; count is their number. *)
cJSON_CreateIntArray(st, numbers) ==
  CreateArrayOf(st, [i \in DOMAIN numbers |->
                       NumberItem(Norm([m |-> numbers[i], e |-> 0]), 0)])

(* sat is what (int)num yields in this build for a num out of int range. *)
cJSON_CreateFloatArray(st, numbers, sat) ==
  CreateArrayOf(st, [i \in DOMAIN numbers |-> NumberItem(numbers[i], sat)])

cJSON_CreateDoubleArray(st, numbers, sat) ==
  CreateArrayOf(st, [i \in DOMAIN numbers |-> NumberItem(numbers[i], sat)])

cJSON_CreateStringArray(st, strings) ==
  CreateArrayOf(st, [i \in DOMAIN strings |->
                       [kind |-> "string", string |-> strings[i]]])

----------------------------------------------------------------------------
(* Duplication: the state after the call and the pointer returned. *)

RECURSIVE cJSON_Duplicate(_, _, _)
RECURSIVE duplicate_valuestring(_, _, _, _)
RECURSIVE duplicate_string(_, _, _, _)
RECURSIVE duplicate_children_leaks(_, _, _, _)
RECURSIVE duplicate_children(_, _, _, _)

(* if (item->valuestring) { newitem->valuestring = cJSON_strdup(...); ... } *)
duplicate_valuestring(st, item, newitem, recurse) ==
  IF st.mem[item].valuestring = NULL THEN duplicate_string(st, item, newitem, recurse)
  ELSE Let(cJSON_strdup(st, st.mem[st.mem[item].valuestring].bytes), LAMBDA d :
         IF d.p = NULL THEN [st |-> cJSON_Delete(d.st, newitem), p |-> NULL]
         ELSE duplicate_string([d.st EXCEPT !.mem[newitem].valuestring = d.p],
                               item, newitem, recurse))

(* if (item->string) { newitem->string = cJSON_strdup(item->string); ... }  *)
(* if (!recurse) return newitem;                                            *)
duplicate_string(st, item, newitem, recurse) ==
  IF st.mem[item].string = NULL
  THEN (IF recurse THEN duplicate_children(st, newitem, st.mem[item].child, NULL)
        ELSE [st |-> st, p |-> newitem])
  ELSE Let(cJSON_strdup(st, st.mem[st.mem[item].string].bytes), LAMBDA d :
         IF d.p = NULL THEN [st |-> cJSON_Delete(d.st, newitem), p |-> NULL]
         ELSE IF recurse
         THEN duplicate_children([d.st EXCEPT !.mem[newitem].string = d.p],
                                 newitem, st.mem[item].child, NULL)
         ELSE [st |-> [d.st EXCEPT !.mem[newitem].string = d.p], p |-> newitem])

(* The loop over the children, without the cJSON_Delete(newitem) of a       *)
(* failed copy.                                                             *)
duplicate_children_leaks(st, newitem, cptr, nptr) ==
  IF cptr = NULL THEN [st |-> st, p |-> newitem]
  ELSE Let(cJSON_Duplicate(st, cptr, TRUE), LAMBDA c :
         IF c.p = NULL THEN [st |-> c.st, p |-> NULL]
         ELSE duplicate_children_leaks(
                IF nptr # NULL
                THEN [c.st EXCEPT !.mem[nptr].next = c.p, !.mem[c.p].prev = nptr]
                ELSE [c.st EXCEPT !.mem[newitem].child = c.p],
                newitem, st.mem[cptr].next, c.p))

(* The loop over the children from cptr on, nptr the last copy linked. *)
duplicate_children(st, newitem, cptr, nptr) ==
  IF cptr = NULL THEN [st |-> st, p |-> newitem]
  ELSE Let(cJSON_Duplicate(st, cptr, TRUE), LAMBDA c :
         IF c.p = NULL THEN [st |-> cJSON_Delete(c.st, newitem), p |-> NULL]
         ELSE duplicate_children(
                IF nptr # NULL
                THEN [c.st EXCEPT !.mem[nptr].next = c.p, !.mem[c.p].prev = nptr]
                ELSE [c.st EXCEPT !.mem[newitem].child = c.p],
                newitem, st.mem[cptr].next, c.p))

cJSON_Duplicate(st, item, recurse) ==
  IF item = NULL THEN [st |-> st, p |-> NULL]
  ELSE Let(cJSON_New_Item(st), LAMBDA n :
         IF n.p = NULL THEN n
         ELSE duplicate_valuestring(
                [n.st EXCEPT !.mem[n.p].type = st.mem[item].type,
                             !.mem[n.p].isref = FALSE,
                             !.mem[n.p].valueint = st.mem[item].valueint,
                             !.mem[n.p].valuedouble = st.mem[item].valuedouble],
                item, n.p, recurse))

----------------------------------------------------------------------------
(* The text a parse reads.                                                 *)
(*                                                                         *)
(* img is the memory at the text's address: the text, its terminator, and  *)
(* whatever bytes follow the terminator (tail); what lies beyond those      *)
(* reads as zero.  A pointer into the text is a 0-based offset.             *)

Image(text, tail) == text \o <<Asc.nul>> \o tail

At(img, i) == IF i >= 0 /\ i < Len(img) THEN img[i + 1] ELSE Asc.nul

Max2(a, b) == IF a >= b THEN a ELSE b

(* The state of a parse: the call's heap state st, the error pointer ep,    *)
(*   hi    the largest offset the parse has read                            *)
(*   ovf   the string decoder wrote more bytes than its buffer holds        *)
(*   cast  an (int) conversion of a value out of int range was made         *)
(*   sat   what such a conversion yields in this build                      *)
Parsing(st, sat) == [st |-> st, ep |-> NoPos, hi |-> 0, ovf |-> FALSE,
                     cast |-> FALSE, sat |-> sat]

Read(ps, i) == [ps EXCEPT !.hi = Max2(@, i)]

(* while (in && *in && (unsigned char)*in <= 32) in++;  but for space only *)
RECURSIVE skip_spaces_only(_, _)
skip_spaces_only(img, in) ==
  IF in # NoPos /\ At(img, in) = Asc.space THEN skip_spaces_only(img, in + 1) ELSE in

(* while (in && *in && (unsigned char)*in <= 32) in++; *)
RECURSIVE skip(_, _)
skip(img, in) ==
  IF in # NoPos /\ At(img, in) # Asc.nul /\ At(img, in) <= 32
  THEN skip(img, in + 1) ELSE in

(* !strncmp(value, word, Len(word)) *)
strncmp_eq(img, value, word) ==
  \A i \in 1..Len(word) : At(img, value + i - 1) = word[i]

IsDigit(ch) == ch >= Asc.d0 /\ ch <= Asc.d9

(* The value of a hex digit, -1 for any other byte. *)
HexVal(ch) ==
  IF IsDigit(ch) THEN ch - Asc.d0
  ELSE IF ch >= Asc.A /\ ch <= Asc.F THEN 10 + ch - Asc.A
  ELSE IF ch >= Asc.a /\ ch <= Asc.f THEN 10 + ch - Asc.a
  ELSE -1

(* parse_hex4 from its k-th digit on, h the digits so far. *)
RECURSIVE hex4_from(_, _, _, _)
hex4_from(img, str, k, h) ==
  IF k = 4 THEN h
  ELSE IF HexVal(At(img, str)) < 0 THEN 0
  ELSE hex4_from(img, str + 1, k + 1, h * 16 + HexVal(At(img, str)))

parse_hex4(img, str) == hex4_from(img, str, 0, 0)

(* The last offset parse_hex4 reads: it stops at the first byte that is no hex digit. *)
RECURSIVE hex4_last(_, _, _)
hex4_last(img, str, k) ==
  IF k = 3 \/ HexVal(At(img, str)) < 0 THEN str ELSE hex4_last(img, str + 1, k + 1)

(* The UTF-8 bytes written for the code point uc. *)
utf8(uc) ==
  IF uc < 128 THEN <<uc>>
  ELSE IF uc < 2048 THEN <<192 + (uc \div 64), 128 + (uc % 64)>>
  ELSE IF uc < 65536
       THEN <<224 + (uc \div 4096), 128 + ((uc \div 64) % 64), 128 + (uc % 64)>>
  ELSE <<240 + (uc \div 262144), 128 + ((uc \div 4096) % 64),
         128 + ((uc \div 64) % 64), 128 + (uc % 64)>>

(* case 'u' of the decoder, ptr at the u: the bytes written, where ptr is    *)
(* left, and the last offset read.                                          *)
surrogate_pair(img, ptr, uc, hi) ==
  IF At(img, ptr + 1) # Asc.bslash THEN [ptr |-> ptr, bytes |-> <<>>, hi |-> Max2(hi, ptr + 1)]
  ELSE IF At(img, ptr + 2) # Asc.u THEN [ptr |-> ptr, bytes |-> <<>>, hi |-> Max2(hi, ptr + 2)]
  ELSE Let(parse_hex4(img, ptr + 3), LAMBDA uc2 :
         [ptr |-> ptr + 6, hi |-> Max2(hi, hex4_last(img, ptr + 3, 0)),
          bytes |-> IF uc2 < 56320 \/ uc2 > 57343 THEN <<>>
                    ELSE utf8(65536 + ((uc % 1024) * 1024) + (uc2 % 1024))])

unicode_escape(img, ptr) ==
  Let(parse_hex4(img, ptr + 1), LAMBDA uc :
    IF (uc >= 56320 /\ uc <= 57343) \/ uc = 0
    THEN [ptr |-> ptr + 4, bytes |-> <<>>, hi |-> hex4_last(img, ptr + 1, 0)]
    ELSE IF uc >= 55296 /\ uc <= 56319
    THEN surrogate_pair(img, ptr + 4, uc, hex4_last(img, ptr + 1, 0))
    ELSE [ptr |-> ptr + 4, bytes |-> utf8(uc), hi |-> hex4_last(img, ptr + 1, 0)])

(* The first pass of parse_string: where it stops and the length it counts. *)
RECURSIVE string_length(_, _, _)
string_length(img, ptr, len) ==
  IF At(img, ptr) = Asc.quote \/ At(img, ptr) = Asc.nul
  THEN [ptr |-> ptr, len |-> len]
  ELSE string_length(img, IF At(img, ptr) = Asc.bslash THEN ptr + 2 ELSE ptr + 1,
                     len + 1)

(* The byte written for the escape \esc, esc not u. *)
Unescaped(esc) ==
  CASE esc = Asc.b -> 8
    [] esc = Asc.f -> 12
    [] esc = Asc.n -> Asc.lf
    [] esc = Asc.r -> Asc.cr
    [] esc = Asc.t -> Asc.tab
    [] OTHER -> esc

(* The second pass of parse_string: the bytes written before the            *)
(* terminator, where it stops, and the last offset read.                    *)
RECURSIVE string_decode(_, _, _, _)
string_decode(img, ptr, out, hi) ==
  IF At(img, ptr) = Asc.quote \/ At(img, ptr) = Asc.nul
  THEN [ptr |-> ptr, out |-> out, hi |-> Max2(hi, ptr)]
  ELSE IF At(img, ptr) # Asc.bslash
  THEN string_decode(img, ptr + 1, Append(out, At(img, ptr)), hi)
  ELSE IF At(img, ptr + 1) = Asc.u
  THEN Let(unicode_escape(img, ptr + 1), LAMBDA r :
         string_decode(img, r.ptr + 1, out \o r.bytes, Max2(hi, r.hi)))
  ELSE string_decode(img, ptr + 2, Append(out, Unescaped(At(img, ptr + 1))),
                     Max2(hi, ptr + 1))

(* The C string in a buffer: its bytes up to the first zero. *)
RECURSIVE CStr(_)
CStr(bytes) ==
  IF bytes = <<>> \/ Head(bytes) = Asc.nul THEN <<>>
  ELSE <<Head(bytes)>> \o CStr(Tail(bytes))

(* A parse function returns the state of the parse and the pointer it       *)
(* returns (NoPos: null).                                                   *)
Returns(ps, end) == [ps |-> ps, end |-> end]

(* parse_string once the first pass has counted m.len and stopped at m.ptr. *)
string_into(ps, img, item, str, m, out) ==
  IF out = NULL
  THEN Returns([Read(ps, m.ptr) EXCEPT !.st.n = @ + 1, !.st.failed = TRUE], NoPos)
  ELSE Let(string_decode(img, str + 1, <<>>, m.ptr), LAMBDA d :
         Returns([Read(ps, d.hi) EXCEPT
                    !.st.n = @ + 1,
                    !.st.mem[out] = [kind |-> "str", bytes |-> CStr(d.out),
                                     cap |-> m.len + 1, used |-> Len(d.out) + 1],
                    !.st.mem[item].valuestring = out,
                    !.st.mem[item].type = "String",
                    !.ovf = @ \/ Len(d.out) + 1 > m.len + 1],
                 IF At(img, d.ptr) = Asc.quote THEN d.ptr + 1 ELSE d.ptr))

parse_string(ps, img, item, str) ==
  IF At(img, str) # Asc.quote THEN Returns([Read(ps, str) EXCEPT !.ep = str], NoPos)
  ELSE string_into(ps, img, item, str, string_length(img, str + 1, 0), MallocPtr(ps.st))

\* n * 10 + digit
AddDigit(n, digit) ==
  IF digit = 0 THEN (IF n.m = 0 THEN Zero ELSE [n EXCEPT !.e = @ + 1])
  ELSE [m |-> n.m * Pow10(n.e + 1) + digit, e |-> 0]

\* do n = (n * 10.0f) + (*num++ - '0'); while (*num >= '0' && *num <= '9');
\* k counts the digits.
RECURSIVE digits(_, _, _, _)
digits(img, num, n, k) ==
  IF IsDigit(At(img, num))
  THEN digits(img, num + 1, AddDigit(n, At(img, num) - Asc.d0), k + 1)
  ELSE [num |-> num, n |-> n, k |-> k]

\* while (*num >= '0' && *num <= '9') subscale = (subscale * 10) + (*num++ - '0');
RECURSIVE exponent_digits(_, _, _, _)
exponent_digits(img, num, subscale, signsubscale) ==
  IF IsDigit(At(img, num))
  THEN exponent_digits(img, num + 1, subscale * 10 + (At(img, num) - Asc.d0), signsubscale)
  ELSE [num |-> num, scale |-> subscale * signsubscale]

(* The sign and the zero of a number: where its digits start. *)
number_start(img, num) ==
  IF At(img, num) = Asc.minus
  THEN (IF At(img, num + 1) = Asc.d0 THEN num + 2 ELSE num + 1)
  ELSE (IF At(img, num) = Asc.d0 THEN num + 1 ELSE num)

integer_part(img, num) ==
  IF At(img, num) > Asc.d0 /\ At(img, num) <= Asc.d9 THEN digits(img, num, Zero, 0)
  ELSE [num |-> num, n |-> Zero, k |-> 0]

fraction_part(img, whole) ==
  IF At(img, whole.num) = Asc.dot /\ IsDigit(At(img, whole.num + 1))
  THEN digits(img, whole.num + 1, whole.n, 0)
  ELSE [num |-> whole.num, n |-> whole.n, k |-> 0]

exponent_part(img, num) ==
  IF At(img, num) = Asc.e \/ At(img, num) = Asc.E
  THEN IF At(img, num + 1) = Asc.plus THEN exponent_digits(img, num + 2, 0, 1)
       ELSE IF At(img, num + 1) = Asc.minus THEN exponent_digits(img, num + 2, 0, -1)
       ELSE exponent_digits(img, num + 1, 0, 1)
  ELSE [num |-> num, scale |-> 0]

(* parse_number once n is computed and num is where the number ends. *)
number_into(ps, item, n, num) ==
  Returns([Read(ps, num) EXCEPT
             !.st.mem[item].valuedouble = n,
             !.st.mem[item].valueint = IF InIntRange(n) THEN Trunc(n) ELSE ps.sat,
             !.st.mem[item].type = "Number",
             !.cast = @ \/ ~InIntRange(n)],
          num)

parse_number(ps, img, item, num) ==
  Let(fraction_part(img, integer_part(img, number_start(img, num))), LAMBDA frac :
    Let(exponent_part(img, frac.num), LAMBDA exp :
      number_into(ps, item,
                  Norm([m |-> (IF At(img, num) = Asc.minus THEN -1 ELSE 1) * frac.n.m,
                        e |-> frac.n.e - frac.k + exp.scale]),
                  exp.num)))

RECURSIVE parse_value(_, _, _, _)
RECURSIVE parse_array(_, _, _, _)
RECURSIVE array_rest(_, _, _)
RECURSIVE parse_object(_, _, _, _)
RECURSIVE object_value(_, _, _)
RECURSIVE object_rest(_, _, _)

parse_value(ps, img, item, value) ==
  IF value = NoPos THEN Returns(ps, NoPos)
  ELSE IF strncmp_eq(img, value, <<Asc.n, Asc.u, Asc.l, Asc.l>>)
  THEN Returns([Read(ps, value + 3) EXCEPT !.st.mem[item].type = "NULL"], value + 4)
  ELSE IF strncmp_eq(img, value, <<Asc.f, Asc.a, Asc.l, Asc.s, Asc.e>>)
  THEN Returns([Read(ps, value + 4) EXCEPT !.st.mem[item].type = "False"], value + 5)
  ELSE IF strncmp_eq(img, value, <<Asc.t, Asc.r, Asc.u, Asc.e>>)
  THEN Returns([Read(ps, value + 3) EXCEPT !.st.mem[item].type = "True",
                                           !.st.mem[item].valueint = 1], value + 4)
  ELSE IF At(img, value) = Asc.quote THEN parse_string(ps, img, item, value)
  ELSE IF At(img, value) = Asc.minus \/ IsDigit(At(img, value))
  THEN parse_number(ps, img, item, value)
  ELSE IF At(img, value) = Asc.lbracket THEN parse_array(ps, img, item, value)
  ELSE IF At(img, value) = Asc.lbrace THEN parse_object(ps, img, item, value)
  ELSE Returns([Read(ps, value) EXCEPT !.ep = value], NoPos)

(* parse_array after an element: r is what parse_value returned for child,   *)
(* the last element.  value = skip(r.end); if (!value) return nullptr;       *)
(* the loop and what follows it.                                             *)
array_rest(r, img, child) ==
  IF r.end = NoPos THEN r
  ELSE Let(skip(img, r.end), LAMBDA value :
    IF At(img, value) = Asc.comma
    THEN Let(cJSON_New_Item(r.ps.st), LAMBDA a :
           IF a.p = NULL THEN Returns([r.ps EXCEPT !.st = a.st], NoPos)
           ELSE array_rest(
                  parse_value([r.ps EXCEPT !.st = [a.st EXCEPT !.mem[child].next = a.p,
                                                               !.mem[a.p].prev = child]],
                              img, a.p, skip(img, value + 1)),
                  img, a.p))
    ELSE IF At(img, value) = Asc.rbracket THEN Returns(Read(r.ps, value), value + 1)
    ELSE Returns([Read(r.ps, value) EXCEPT !.ep = value], NoPos))

parse_array(ps, img, item, value) ==
  IF At(img, value) # Asc.lbracket THEN Returns([Read(ps, value) EXCEPT !.ep = value], NoPos)
  ELSE Let(skip(img, value + 1), LAMBDA v1 :
    IF At(img, v1) = Asc.rbracket
    THEN Returns([Read(ps, v1) EXCEPT !.st.mem[item].type = "Array"], v1 + 1)
    ELSE Let(cJSON_New_Item([ps.st EXCEPT !.mem[item].type = "Array"]), LAMBDA a :
           IF a.p = NULL THEN Returns([ps EXCEPT !.st = a.st], NoPos)
           ELSE array_rest(
                  parse_value([ps EXCEPT !.st = [a.st EXCEPT !.mem[item].child = a.p]],
                              img, a.p, skip(img, v1)),
                  img, a.p)))

(* A member of parse_object after its key: k is what parse_string returned  *)
(* for child.  The key moves from valuestring to string; the colon; the     *)
(* value into child.                                                        *)
object_value(k, img, child) ==
  IF k.end = NoPos THEN k
  ELSE Let(skip(img, k.end), LAMBDA value :
    IF At(img, value) # Asc.colon
    THEN Returns([Read(k.ps, value) EXCEPT
                    !.st.mem[child].string = k.ps.st.mem[child].valuestring,
                    !.st.mem[child].valuestring = NULL,
                    !.ep = value], NoPos)
    ELSE parse_value([k.ps EXCEPT !.st.mem[child].string = k.ps.st.mem[child].valuestring,
                                  !.st.mem[child].valuestring = NULL],
                     img, child, skip(img, value + 1)))

(* parse_object after a member: r is what parse_value returned for child,   *)
(* the last member.  value = skip(r.end); if (!value) return nullptr;       *)
(* the loop and what follows it.                                            *)
object_rest(r, img, child) ==
  IF r.end = NoPos THEN r
  ELSE Let(skip(img, r.end), LAMBDA value :
    IF At(img, value) = Asc.comma
    THEN Let(cJSON_New_Item(r.ps.st), LAMBDA a :
           IF a.p = NULL THEN Returns([r.ps EXCEPT !.st = a.st], NoPos)
           ELSE object_rest(
                  object_value(
                    parse_string([r.ps EXCEPT !.st = [a.st EXCEPT !.mem[child].next = a.p,
                                                                  !.mem[a.p].prev = child]],
                                 img, a.p, skip(img, value + 1)),
                    img, a.p),
                  img, a.p))
    ELSE IF At(img, value) = Asc.rbrace THEN Returns(Read(r.ps, value), value + 1)
    ELSE Returns([Read(r.ps, value) EXCEPT !.ep = value], NoPos))

parse_object(ps, img, item, value) ==
  IF At(img, value) # Asc.lbrace THEN Returns([Read(ps, value) EXCEPT !.ep = value], NoPos)
  ELSE Let(skip(img, value + 1), LAMBDA v1 :
    IF At(img, v1) = Asc.rbrace
    THEN Returns([Read(ps, v1) EXCEPT !.st.mem[item].type = "Object"], v1 + 1)
    ELSE Let(cJSON_New_Item([ps.st EXCEPT !.mem[item].type = "Object"]), LAMBDA a :
           IF a.p = NULL THEN Returns([ps EXCEPT !.st = a.st], NoPos)
           ELSE object_rest(
                  object_value(
                    parse_string([ps EXCEPT !.st = [a.st EXCEPT !.mem[item].child = a.p]],
                                 img, a.p, skip(img, v1)),
                    img, a.p),
                  img, a.p)))

(* cJSON_Delete(c); return nullptr;  without the cJSON_Delete *)
parse_failure_keeps_tree(st, c) == st

(* cJSON_Delete(c); return nullptr; *)
parse_failure(st, c) == cJSON_Delete(st, c)

(* What cJSON_ParseWithOpts returns: the state of the parse, the tree       *)
(* (NULL: none) and *return_parse_end (NoPos: not set).                     *)
Parsed(ps, ret, end) == [ps |-> ps, ret |-> ret, end |-> end]

(* cJSON_ParseWithOpts once parse_value has returned r for the root c. *)
parse_end(r, img, c, require_null_terminated) ==
  IF r.end = NoPos
  THEN Parsed([r.ps EXCEPT !.st = parse_failure(r.ps.st, c)], NULL, NoPos)
  ELSE IF require_null_terminated
  THEN Let(skip(img, r.end), LAMBDA end :
         IF At(img, end) # Asc.nul
         THEN Parsed([Read(r.ps, end) EXCEPT !.st = parse_failure(r.ps.st, c), !.ep = end],
                     NULL, NoPos)
         ELSE Parsed(Read(r.ps, end), c, end))
  ELSE Parsed(r.ps, c, r.end)

cJSON_ParseWithOpts(st, img, value, require_null_terminated, sat) ==
  Let(cJSON_New_Item(st), LAMBDA c :
    IF c.p = NULL THEN Parsed(Parsing(c.st, sat), NULL, NoPos)
    ELSE parse_end(parse_value(Parsing(c.st, sat), img, c.p, skip(img, value)),
                   img, c.p, require_null_terminated))

----------------------------------------------------------------------------
(* What a walk of the tree sees. *)

(* The nodes reached from c by next, at most fuel of them. *)
RECURSIVE ChainFrom(_, _, _)
ChainFrom(m, c, fuel) ==
  IF c = NULL \/ fuel = 0 \/ m[c].kind # "node" THEN <<>>
  ELSE <<c>> \o ChainFrom(m, m[c].next, fuel - 1)

Children(m, c) == ChainFrom(m, m[c].child, MaxAddr + 1)

KeyOf(m, p) ==
  IF m[p].string = NULL THEN [has |-> FALSE, bytes |-> <<>>]
  ELSE [has |-> TRUE, bytes |-> m[m[p].string].bytes]

(* The member list of a container: the members, their keys, their order. *)
MemberList(m, c) ==
  LET ch == Children(m, c) IN
  [i \in DOMAIN ch |-> [node |-> ch[i], key |-> KeyOf(m, ch[i])]]

(* The blocks a node owns: itself, its key, and unless it is a reference its *)
(* string payload and its children's blocks.                                 *)
RECURSIVE OwnedNode(_, _)
RECURSIVE OwnedChain(_, _)
OwnedNode(m, c) ==
  IF m[c].kind # "node" THEN {c} ELSE
  {c} \cup ({m[c].string} \ {NULL})
      \cup (IF m[c].isref THEN {}
            ELSE ({m[c].valuestring} \ {NULL}) \cup OwnedChain(m, m[c].child))
OwnedChain(m, c) ==
  IF c = NULL THEN {} ELSE OwnedNode(m, c) \cup OwnedChain(m, m[c].next)

(* The payload of a String node. *)
StringOf(m, p) ==
  IF m[p].valuestring = NULL THEN [has |-> FALSE, bytes |-> <<>>]
  ELSE [has |-> TRUE, bytes |-> m[m[p].valuestring].bytes]

(* What a tree is, whatever blocks hold it: the kind of each node, its      *)
(* number or string value, its key, and its members in order.               *)
RECURSIVE Shape(_, _)
RECURSIVE ShapeChain(_, _)
Shape(m, c) ==
  [type |-> m[c].type,
   num |-> IF m[c].type = "Number" THEN m[c].valuedouble ELSE Zero,
   str |-> IF m[c].type = "String" THEN StringOf(m, c) ELSE [has |-> FALSE, bytes |-> <<>>],
   key |-> KeyOf(m, c),
   kids |-> ShapeChain(m, m[c].child)]
ShapeChain(m, c) ==
  IF c = NULL THEN <<>> ELSE <<Shape(m, c)>> \o ShapeChain(m, m[c].next)

----------------------------------------------------------------------------
(* The printer, unformatted (fmt = 0).                                      *)
(*                                                                         *)
(* A print function is modelled by the text it returns when the allocator  *)
(* serves each of its requests; its buffers are not blocks of mem.  A       *)
(* double is an exact decimal m * 10^e with |m| < 2^31, so a value that is  *)
(* no integer and has at most 15 decimals is further than DBL_EPSILON from  *)
(* every integer, and one with 16 or more is below 1e-6 in magnitude.       *)

Digit(k) == Asc.d0 + k

(* The decimal digits of n >= 0. *)
RECURSIVE Decimal(_)
Decimal(n) == IF n < 10 THEN <<Digit(n)>> ELSE Append(Decimal(n \div 10), Digit(n % 10))

(* The last width decimal digits of n >= 0, with leading zeros. *)
RECURSIVE Padded(_, _)
Padded(n, width) ==
  IF width = 0 THEN <<>> ELSE Append(Padded(n \div 10, width - 1), Digit(n % 10))

Zeros(k) == [i \in 1..k |-> Asc.d0]

NumDigits(n) == Len(Decimal(n))

Sign(neg) == IF neg THEN <<Asc.minus>> ELSE <<>>

(* absm * 10^-k <= DBL_EPSILON (2.220446049250313e-16), for absm >= 0. *)
LeEpsilon(absm, k) ==
  IF absm = 0 THEN TRUE
  ELSE IF k < 16 THEN FALSE
  ELSE IF k >= 25 THEN TRUE
  ELSE absm <= 222044604 \div Pow10(24 - k)

(* fabs(((double)valueint) - d) <= DBL_EPSILON, for d in int range *)
NearInt(valueint, d) ==
  IF d.e >= 0 THEN valueint = Trunc(d)
  ELSE valueint = 0 /\ LeEpsilon(Abs(d.m), -d.e)

(* fabs(floor(d) - d) <= DBL_EPSILON *)
IsWhole(d) == d.e >= 0 \/ (d.m > 0 /\ LeEpsilon(d.m, -d.e))

(* The k with 10^(k-1) <= fabs(d) < 10^k, for d not 0. *)
Magnitude(d) == NumDigits(Abs(d.m)) + d.e

(* fabs(d) < 1.0e60 *)
Below1e60(d) == d.m = 0 \/ Magnitude(d) <= 60

(* fabs(d) < 1.0e-6 *)
Below1em6(d) == d.m = 0 \/ Magnitude(d) <= -6

(* fabs(d) > 1.0e9 *)
Above1e9(d) ==
  d.m # 0 /\ (Magnitude(d) >= 11 \/ (Magnitude(d) = 10 /\ Abs(d.m) # 1))

(* sprintf(str, "%d", valueint) *)
sprintf_d(valueint) ==
  IF valueint = INT_MIN
  THEN <<Asc.minus>> \o Decimal(INT_MAX \div 10) \o <<Digit((INT_MAX % 10) + 1)>>
  ELSE Sign(valueint < 0) \o Decimal(Abs(valueint))

(* sprintf(str, "%.0f", d), for a d that passed the test of IsWhole *)
sprintf_0f(d) ==
  IF d.e >= 0 THEN Sign(d.m < 0) \o Decimal(Abs(d.m)) \o (IF d.m = 0 THEN <<>> ELSE Zeros(d.e))
  ELSE <<Asc.d0>>

(* n / 10^w rounded to the nearest integer, for n >= 0. *)
Rounded(n, w) ==
  IF w <= 0 THEN n * Pow10(-w)
  ELSE IF w >= 10 THEN 0
  ELSE (n \div Pow10(w)) + (IF 2 * (n % Pow10(w)) >= Pow10(w) THEN 1 ELSE 0)

(* The exponent of "%e": a sign and at least two digits. *)
ExponentText(x) ==
  <<Asc.e, IF x < 0 THEN Asc.minus ELSE Asc.plus>>
    \o (IF Abs(x) < 10 THEN Padded(Abs(x), 2) ELSE Decimal(Abs(x)))

(* "%e" of the 7 significant digits sig (1000000..10000000), exponent x: *)
(* a sig of 10000000 is 1.000000 with the exponent one higher.            *)
MantissaText(neg, sig, x) ==
  Sign(neg) \o <<Digit(IF sig = Pow10(7) THEN 1 ELSE sig \div Pow10(6)), Asc.dot>>
    \o Padded(sig, 6) \o ExponentText(IF sig = Pow10(7) THEN x + 1 ELSE x)

(* sprintf(str, "%e", d), for d not 0 *)
sprintf_e(d) ==
  MantissaText(d.m < 0, Rounded(Abs(d.m), NumDigits(Abs(d.m)) - 7), Magnitude(d) - 1)

(* "%f" of whole + frac / 10^6, frac in 0..1000000. *)
FixedText(neg, whole, frac) ==
  Sign(neg) \o Decimal(IF frac = Pow10(6) THEN whole + 1 ELSE whole)
    \o <<Asc.dot>> \o Padded(frac, 6)

(* sprintf(str, "%f", d), for fabs(d) <= 1e9 *)
sprintf_f(d) ==
  IF d.e >= 0 THEN FixedText(d.m < 0, Abs(d.m) * Pow10(d.e), 0)
  ELSE IF -d.e >= 10 THEN FixedText(d.m < 0, 0, Rounded(Abs(d.m), -d.e - 6))
  ELSE FixedText(d.m < 0, Abs(d.m) \div Pow10(-d.e),
                 Rounded(Abs(d.m) % Pow10(-d.e), -d.e - 6))

(* print_number without the "%.0f" case. *)
print_number_no_whole(item) ==
  IF InIntRange(item.valuedouble) /\ NearInt(item.valueint, item.valuedouble)
  THEN sprintf_d(item.valueint)
  ELSE IF Below1em6(item.valuedouble) \/ Above1e9(item.valuedouble)
  THEN sprintf_e(item.valuedouble)
  ELSE sprintf_f(item.valuedouble)

print_number(item) ==
  IF InIntRange(item.valuedouble) /\ NearInt(item.valueint, item.valuedouble)
  THEN sprintf_d(item.valueint)
  ELSE IF IsWhole(item.valuedouble) /\ Below1e60(item.valuedouble)
  THEN sprintf_0f(item.valuedouble)
  ELSE IF Below1em6(item.valuedouble) \/ Above1e9(item.valuedouble)
  THEN sprintf_e(item.valuedouble)
  ELSE sprintf_f(item.valuedouble)

HexDigit(v) == IF v < 10 THEN Digit(v) ELSE Asc.a + (v - 10)

(* What print_string_ptr writes for one byte of the string. *)
Escaped(token) ==
  IF token > 31 /\ token # Asc.quote /\ token # Asc.bslash THEN <<token>>
  ELSE CASE token = Asc.bslash -> <<Asc.bslash, Asc.bslash>>
         [] token = Asc.quote -> <<Asc.bslash, Asc.quote>>
         [] token = 8 -> <<Asc.bslash, Asc.b>>
         [] token = 12 -> <<Asc.bslash, Asc.f>>
         [] token = Asc.lf -> <<Asc.bslash, Asc.n>>
         [] token = Asc.cr -> <<Asc.bslash, Asc.r>>
         [] token = Asc.tab -> <<Asc.bslash, Asc.t>>
         [] OTHER -> <<Asc.bslash, Asc.u, Asc.d0, Asc.d0,
                       HexDigit(token \div 16), HexDigit(token % 16)>>

RECURSIVE EscapedFrom(_, _)
EscapedFrom(bytes, i) ==
  IF i > Len(bytes) THEN <<>> ELSE Escaped(bytes[i]) \o EscapedFrom(bytes, i + 1)

(* str is a pointer: a null one prints as the empty text. *)
print_string_ptr(m, str) ==
  IF str = NULL THEN <<>>
  ELSE <<Asc.quote>> \o EscapedFrom(m[str].bytes, 1) \o <<Asc.quote>>

print_string(m, item) == print_string_ptr(m, m[item].valuestring)

RECURSIVE print_value(_, _)
RECURSIVE print_entries(_, _, _)

(* The entries of a container from child on, with their names in an object, *)
(* and a comma after each but the last.                                     *)
print_entries(m, child, named) ==
  (IF named THEN print_string_ptr(m, m[child].string) \o <<Asc.colon>> ELSE <<>>)
    \o print_value(m, child)
    \o (IF m[child].next = NULL THEN <<>>
        ELSE <<Asc.comma>> \o print_entries(m, m[child].next, named))

print_array(m, item) ==
  IF m[item].child = NULL THEN <<Asc.lbracket, Asc.rbracket>>
  ELSE <<Asc.lbracket>> \o print_entries(m, m[item].child, FALSE) \o <<Asc.rbracket>>

print_object(m, item) ==
  IF m[item].child = NULL THEN <<Asc.lbrace, Asc.rbrace>>
  ELSE <<Asc.lbrace>> \o print_entries(m, m[item].child, TRUE) \o <<Asc.rbrace>>

print_value(m, item) ==
  CASE m[item].type = "NULL" -> <<Asc.n, Asc.u, Asc.l, Asc.l>>
    [] m[item].type = "False" -> <<Asc.f, Asc.a, Asc.l, Asc.s, Asc.e>>
    [] m[item].type = "True" -> <<Asc.t, Asc.r, Asc.u, Asc.e>>
    [] m[item].type = "Number" -> print_number(m[item])
    [] m[item].type = "String" -> print_string(m, item)
    [] m[item].type = "Array" -> print_array(m, item)
    [] m[item].type = "Object" -> print_object(m, item)

cJSON_PrintUnformatted(m, item) == print_value(m, item)

----------------------------------------------------------------------------
(* The minifier.                                                           *)
(*                                                                         *)
(* cJSON_Minify rewrites the text in place; into never passes json, so no   *)
(* byte is read after it was written, and the call is modelled by the       *)
(* bytes it writes (out), the largest offset it reads (hi) and json.        *)

Minifying(json, out, hi) == [json |-> json, out |-> out, hi |-> hi]

\* while (*json && *json != '\n') json++;
RECURSIVE line_end(_, _)
line_end(img, json) ==
  IF At(img, json) # Asc.nul /\ At(img, json) # Asc.lf THEN line_end(img, json + 1)
  ELSE json

\* while (*json && !(*json == '*' && json[1] == '/')) json++;
RECURSIVE block_end(_, _)
block_end(img, json) ==
  IF At(img, json) # Asc.nul /\ ~(At(img, json) = Asc.star /\ At(img, json + 1) = Asc.slash)
  THEN block_end(img, json + 1)
  ELSE json

(* The last offset the loop of block_end reads when it stops at json. *)
block_last(img, json) == IF At(img, json) = Asc.star THEN json + 1 ELSE json

\* while (*json && *json != '\"') { if (*json == '\\') *into++ = *json++;
\*   *into++ = *json++; }  *into++ = *json++;
RECURSIVE string_copy(_, _, _, _)
string_copy(img, json, out, hi) ==
  IF At(img, json) = Asc.nul \/ At(img, json) = Asc.quote
  THEN Minifying(json + 1, Append(out, At(img, json)), Max2(hi, json))
  ELSE IF At(img, json) = Asc.bslash
  THEN string_copy(img, json + 2, out \o <<Asc.bslash, At(img, json + 1)>>,
                   Max2(hi, json + 1))
  ELSE string_copy(img, json + 1, Append(out, At(img, json)), Max2(hi, json))

\* cJSON_Minify from json on: out holds the bytes written so far.
RECURSIVE minify_from(_, _, _, _)
minify_from(img, json, out, hi) ==
  IF At(img, json) = Asc.nul THEN Minifying(json, out, Max2(hi, json))
  ELSE IF At(img, json) \in {Asc.space, Asc.tab, Asc.cr, Asc.lf}
  THEN minify_from(img, json + 1, out, hi)
  ELSE IF At(img, json) = Asc.slash /\ At(img, json + 1) = Asc.slash
  THEN minify_from(img, line_end(img, json), out, Max2(hi, json + 1))
  ELSE IF At(img, json) = Asc.slash /\ At(img, json + 1) = Asc.star
  THEN minify_from(img, block_end(img, json) + 2, out,
                   Max2(hi, block_last(img, block_end(img, json))))
  ELSE IF At(img, json) = Asc.quote
  THEN Let(string_copy(img, json + 1, Append(out, Asc.quote), hi), LAMBDA s :
         minify_from(img, s.json, s.out, s.hi))
  ELSE minify_from(img, json + 1, Append(out, At(img, json)),
                   Max2(hi, IF At(img, json) = Asc.slash THEN json + 1 ELSE json))

(* The text left in the buffer, and the largest offset read. *)
cJSON_Minify(img) ==
  Let(minify_from(img, 0, <<>>, 0), LAMBDA r : [out |-> CStr(r.out), hi |-> r.hi])

----------------------------------------------------------------------------
(* The caller of the tree editor.                                          *)

(* Keys members are added under, and keys looked up: "A" finds a member    *)
(* added as "a" (the comparison ignores case), "b" finds none.             *)
AddKeys == {<<Asc.a>>}
LookupKeys == {<<Asc.A>>, <<Asc.b>>}
Payloads == {<<Asc.s>>}

IsContainer(m, c) ==
  m[c].kind = "node" /\ m[c].type \in {"Array", "Object"} /\ ~m[c].isref

Containers == {c \in roots : IsContainer(mem, c)}
(* The caller adds elements to arrays and keyed members to objects. *)
Arrays == {c \in Containers : mem[c].type = "Array"}
Objects == {c \in Containers : mem[c].type = "Object"}

NoInput == [kind |-> "none"]
NoResult == [kind |-> "none"]

NoOp == [kind |-> "none", c |-> NULL, which |-> 0, ret |-> NULL, failed |-> FALSE,
         wasSurv |-> FALSE, n |-> 0]

Record(o) == IF track THEN o ELSE NoOp

Without(seq, p) == SelectSeq(seq, LAMBDA q : q # p)
Swap(seq, old, new) == [i \in DOMAIN seq |-> IF seq[i] = old THEN new ELSE seq[i]]

(* The history variables after a call that freed the blocks in freed. *)
Forget(f, freed, none) == [p \in Addr |-> IF p \in freed THEN none ELSE f[p]]
ForgetRefs(f, freed) ==
  [p \in Addr |-> IF p \in freed \/ f[p] \in freed THEN NULL ELSE f[p]]

HeapInit ==
  /\ mem = EmptyHeap
  /\ roots = {}
  /\ members = [p \in Addr |-> <<>>]
  /\ refTo = [p \in Addr |-> NULL]
  /\ surv = {}
  /\ dfree = FALSE
  /\ op = NoOp
  /\ calls = 0
  /\ ep = NoPos
  /\ result = NoResult

EditInit == HeapInit /\ input = NoInput

(* item = cJSON_CreateNull() and the like: the caller keeps what is returned. *)
(* The allocator fails here only when no block is left.                       *)
Created(r, kind) ==
  /\ mem' = r.st.mem
  /\ roots' = roots \cup ({r.p} \ {NULL})
  /\ op' = Record([NoOp EXCEPT !.kind = kind, !.ret = r.p, !.failed = r.st.failed])
  /\ UNCHANGED <<members, refTo, surv, dfree>>

CreateNull == Created(cJSON_CreateNull(Call(mem, 0)), "CreateNull")

CreateString == \E string \in Payloads :
  Created(cJSON_CreateString(Call(mem, 0), string), "CreateString")

CreateArray == Created(cJSON_CreateArray(Call(mem, 0)), "CreateArray")

CreateObject == Created(cJSON_CreateObject(Call(mem, 0)), "CreateObject")

AddItemToArray == \E c \in Arrays : \E item \in roots \ {c} :
  /\ mem' = cJSON_AddItemToArray(mem, c, item)
  /\ roots' = roots \ {item}
  /\ members' = [members EXCEPT ![c] = Append(@, item)]
  /\ op' = Record([NoOp EXCEPT !.kind = "AddItemToArray", !.c = c])
  /\ UNCHANGED <<refTo, surv, dfree>>

AddItemToObject ==
  \E c \in Objects : \E item \in roots \ {c}, key \in AddKeys, failAt \in 0..1 :
    LET st == cJSON_AddItemToObject(Call(mem, failAt), c, key, item) IN
    /\ mem' = st.mem
    /\ roots' = roots \ {item}
    /\ members' = [members EXCEPT ![c] = Append(@, item)]
    /\ dfree' = (dfree \/ st.dfree)
    /\ op' = Record([NoOp EXCEPT !.kind = "AddItemToObject", !.c = c,
                          !.failed = st.failed])
    /\ UNCHANGED <<refTo, surv>>

(* The reference node is the new member; the caller keeps item. *)
AddedReference(r, c, item, key, kind) ==
  /\ mem' = r.st.mem
  /\ members' = IF r.p = NULL THEN members ELSE [members EXCEPT ![c] = Append(@, r.p)]
  /\ refTo' = IF r.p = NULL THEN refTo ELSE [refTo EXCEPT ![r.p] = item]
  /\ dfree' = (dfree \/ r.st.dfree)
  /\ op' = Record([NoOp EXCEPT !.kind = kind, !.c = c, !.ret = r.p,
                        !.failed = r.st.failed])
  /\ UNCHANGED <<roots, surv>>

AddItemReferenceToArray ==
  \E c \in Arrays : \E item \in roots \ {c} :
    AddedReference(cJSON_AddItemReferenceToArray(Call(mem, 0), c, item),
                   c, item, <<>>, "AddItemReferenceToArray")

AddItemReferenceToObject ==
  \E c \in Objects : \E item \in roots \ {c}, key \in AddKeys :
    AddedReference(cJSON_AddItemReferenceToObject(Call(mem, 0), c, key, item),
                   c, item, key, "AddItemReferenceToObject")

(* The caller keeps the node that a detach returns. *)
Detached(r, c, which, key, kind) ==
  /\ mem' = r.mem
  /\ roots' = roots \cup ({r.ret} \ {NULL})
  /\ members' = [members EXCEPT ![c] = Without(@, r.ret)]
  /\ op' = Record([NoOp EXCEPT !.kind = kind, !.c = c, !.which = which, !.ret = r.ret])
  /\ UNCHANGED <<refTo, surv, dfree>>

DetachItemFromArray == \E c \in Containers, which \in -1..MaxWhich :
  Detached(cJSON_DetachItemFromArray(mem, c, which), c, which, <<>>,
           "DetachItemFromArray")

DetachItemFromObject == \E c \in Containers, key \in LookupKeys :
  Detached(cJSON_DetachItemFromObject(mem, c, key), c, 0, key,
           "DetachItemFromObject")

(* newitem takes the place of the member that was replaced and destroyed; *)
(* when nothing was replaced the caller still holds newitem.              *)
Replaced(r, c, which, key, newitem, kind) ==
  /\ mem' = r.st.mem
  /\ roots' = IF r.old = NULL THEN roots ELSE roots \ {newitem}
  /\ members' = IF r.old = NULL THEN members
                ELSE [Forget(members, r.st.freed, <<>>) EXCEPT
                        ![c] = Swap(members[c], r.old, newitem)]
  /\ refTo' = ForgetRefs(refTo, r.st.freed)
  /\ surv' = surv \ r.st.freed
  /\ dfree' = (dfree \/ r.st.dfree)
  /\ op' = Record([NoOp EXCEPT !.kind = kind, !.c = c, !.ret = r.old,
                              !.failed = r.st.failed])

ReplaceItemInArray ==
  \E c \in Containers : \E which \in -1..MaxWhich, newitem \in roots \ {c} :
    Replaced(cJSON_ReplaceItemInArray(Call(mem, 0), c, which, newitem),
             c, which, <<>>, newitem, "ReplaceItemInArray")

ReplaceItemInObject ==
  \E c \in Containers : \E key \in LookupKeys, newitem \in roots \ {c},
                           failAt \in 0..1 :
    Replaced(cJSON_ReplaceItemInObject(Call(mem, failAt), c, key, newitem),
             c, 0, key, newitem, "ReplaceItemInObject")

(* The items, still held by the caller, that c's tree holds references to. *)
ReferencedFrom(c) ==
  {x \in roots \ {c} :
     \E r \in OwnedNode(mem, c) : mem[r].kind = "node" /\ refTo[r] = x}

Delete == \E c \in roots :
  LET st == cJSON_Delete(Call(mem, 0), c) IN
  /\ mem' = st.mem
  /\ roots' = roots \ {c}
  /\ members' = Forget(members, st.freed, <<>>)
  /\ refTo' = ForgetRefs(refTo, st.freed)
  /\ surv' = (surv \cup ReferencedFrom(c)) \ st.freed
  /\ dfree' = (dfree \/ st.dfree)
  /\ op' = [NoOp EXCEPT !.kind = "Delete", !.c = c, !.wasSurv = (c \in surv)]

(* One container, created first, and the list operations on it. *)
ListInit == EditInit /\ track = TRUE
ListNext ==
  /\ UNCHANGED <<track, calls, ep, input, result>>
  /\ \/ Containers = {} /\ (CreateArray \/ CreateObject)
     \/ Containers # {} /\ roots \ Containers = {} /\ CreateNull
     \/ AddItemToArray
     \/ AddItemToObject
     \/ DetachItemFromArray
     \/ DetachItemFromObject
     \/ ReplaceItemInArray
     \/ ReplaceItemInObject
SpecList == ListInit /\ [][ListNext]_vars

(* Trees, references into them, and their deletion. *)
RefInit == EditInit /\ track = FALSE
RefNext ==
  /\ UNCHANGED <<track, ep, input, result>>
  /\ calls < MaxCalls
  /\ calls' = calls + 1
  /\ \/ Cardinality(roots) < MaxHeld /\ (CreateString \/ CreateArray \/ CreateObject)
     \/ AddItemToArray
     \/ AddItemToObject
     \/ AddItemReferenceToArray
     \/ AddItemReferenceToObject
     \/ Delete
SpecRef == RefInit /\ [][RefNext]_vars

----------------------------------------------------------------------------
(* The caller of the parser.                                               *)
(*                                                                         *)
(* A text is a core after pieces that open containers and before trailing  *)
(* bytes.  No trailing byte is a quote, a digit or a letter of a number,   *)
(* so a core that is a value ends where its bytes end.                     *)

RECURSIVE Flat(_)
Flat(pieces) == IF pieces = <<>> THEN <<>> ELSE Head(pieces) \o Flat(Tail(pieces))

SeqsUpTo(S, n) == UNION {[1..k -> S] : k \in 0..n}

(*  [   [1,   {"a":  *)
Openers == {<<Asc.lbracket>>,
            <<Asc.lbracket, Asc.d1, Asc.comma>>,
            <<Asc.lbrace, Asc.quote, Asc.a, Asc.quote, Asc.colon>>}

(* Nothing; white space; an x, after or before white space; closing         *)
(* brackets and braces.                                                     *)
Trailing == {<<>>,
             <<Asc.space>>,
             <<Asc.tab, Asc.lf>>,
             <<Asc.x>>,
             <<Asc.space, Asc.x>>,
             <<Asc.tab, Asc.cr, Asc.x, Asc.space, Asc.x>>,
             <<Asc.rbracket>>,
             <<Asc.space, Asc.rbracket, Asc.rbracket>>,
             <<Asc.rbrace>>,
             <<Asc.rbrace, Asc.space, Asc.rbracket>>}

(*  1   "a"   null   [1,1]   {"a":"s"}  *)
WellFormed == {<<Asc.d1>>,
               <<Asc.quote, Asc.a, Asc.quote>>,
               <<Asc.n, Asc.u, Asc.l, Asc.l>>,
               <<Asc.lbracket, Asc.d1, Asc.comma, Asc.d1, Asc.rbracket>>,
               <<Asc.lbrace, Asc.quote, Asc.a, Asc.quote, Asc.colon,
                 Asc.quote, Asc.s, Asc.quote, Asc.rbrace>>}

(*  (nothing)   x   "a   "a\   "\u"   {"a"  *)
Malformed == {<<>>,
              <<Asc.x>>,
              <<Asc.quote, Asc.a>>,
              <<Asc.quote, Asc.a, Asc.bslash>>,
              <<Asc.quote, Asc.bslash, Asc.u, Asc.quote>>,
              <<Asc.lbrace, Asc.quote, Asc.a, Asc.quote>>}

ParseInputs ==
  [kind : {"text"}, open : SeqsUpTo(Openers, MaxOpen),
   core : WellFormed \cup Malformed, trail : Trailing]

Text(in) == Flat(in.open) \o in.core \o in.trail

(* Bytes that may lie in memory after the text's terminator. *)
Tails == {<<>>, <<Asc.quote>>, <<Asc.x, Asc.x, Asc.quote>>}

ParseInit == HeapInit /\ track = FALSE /\ input \in ParseInputs

(* tree = cJSON_ParseWithOpts(text, &end, require_null_terminated).  A call  *)
(* that reads past the text's terminator or writes past a buffer has         *)
(* undefined behaviour: it goes on with the bytes that are there, or the     *)
(* process stops (crashed).                                                  *)
ParseCall(text, tail, require, failAt, sat) ==
  cJSON_ParseWithOpts(Call(mem, failAt), Image(text, tail), 0, require, sat)

Parse ==
  /\ result.kind \in {"none", "printed"}
  /\ \E require \in BOOLEAN, failAt \in 0..MaxFailAt :
     \E r0 \in {ParseCall(Text(input), <<>>, require, failAt, INT_MIN)} :
     \E tail \in (IF r0.ps.hi > Len(Text(input)) THEN Tails ELSE {<<>>}),
        sat \in (IF r0.ps.cast THEN {INT_MIN, INT_MAX} ELSE {INT_MIN}) :
     \E r \in {IF tail = <<>> /\ sat = INT_MIN THEN r0
               ELSE ParseCall(Text(input), tail, require, failAt, sat)} :
     \E crashed \in (IF r.ps.hi > Len(Text(input)) \/ r.ps.ovf THEN BOOLEAN ELSE {FALSE}) :
       /\ result' = IF crashed THEN [kind |-> "crashed"]
                    ELSE [kind |-> "parse", require |-> require, ret |-> r.ret,
                          end |-> r.end, n |-> r.ps.st.n,
                          failed |-> r.ps.st.failed, hi |-> r.ps.hi,
                          ovf |-> r.ps.ovf, before |-> result]
       /\ mem' = IF crashed THEN mem ELSE r.ps.st.mem
       /\ ep' = IF crashed THEN ep ELSE r.ps.ep
       /\ roots' = IF crashed THEN roots ELSE roots \cup ({r.ret} \ {NULL})
       /\ dfree' = (dfree \/ (~crashed /\ r.ps.st.dfree))
       /\ UNCHANGED <<members, refTo, surv, op, input>>

(* The caller may hold a string of its own before the parse, and deletes    *)
(* what it holds after it.                                                  *)
ParseNext ==
  /\ UNCHANGED <<track, calls>>
  /\ \/ result.kind = "none" /\ roots = {} /\ CreateString /\ UNCHANGED <<ep, input, result>>
     \/ result.kind = "none" /\ Parse
     \/ result.kind = "parse" /\ Delete /\ UNCHANGED <<ep, input, result>>
SpecParse == ParseInit /\ [][ParseNext]_vars

(* The caller that parses one text after another: after a call it deletes    *)
(* the tree it got and takes the next text.  ep is the file's static, so it  *)
(* is what the last call left; every call starts by clearing it (the ep of   *)
(* Parsing).                                                                 *)
NextText ==
  /\ result.kind = "parse"
  /\ roots = {}
  /\ calls < MaxParses - 1
  /\ calls' = calls + 1
  /\ input' \in ParseInputs
  /\ result' = NoResult
  /\ UNCHANGED <<mem, roots, members, refTo, surv, dfree, op, track, ep>>

SeqNext ==
  \/ result.kind = "none" /\ Parse /\ UNCHANGED <<track, calls>>
  \/ result.kind = "parse" /\ Delete /\ UNCHANGED <<track, calls, ep, input, result>>
  \/ NextText
SpecSeq == ParseInit /\ [][SeqNext]_vars

----------------------------------------------------------------------------
(* The caller that builds a tree, prints it, and parses the text.          *)

(*  3   1e12   -3.5   0.1234567   1.5e-7  *)
Numbers == {[m |-> 3, e |-> 0], [m |-> 1, e |-> 12], [m |-> -35, e |-> -1],
            [m |-> 1234567, e |-> -7], [m |-> 15, e |-> -8]}

(* What the bulk constructors are given: up to MaxCount of these. *)
BulkInts == {3, -7}
BulkNumbers == {[m |-> 35, e |-> -1], [m |-> 1, e |-> 12]}
BulkStrings == {<<Asc.s>>, <<Asc.quote, Asc.bslash, Asc.tab, 1, 200>>}

BuildInit == EditInit /\ track = FALSE

CreateTrue == Created(cJSON_CreateTrue(Call(mem, 0)), "CreateTrue")

CreateFalse == Created(cJSON_CreateFalse(Call(mem, 0)), "CreateFalse")

CreateBool == \E b \in BOOLEAN : Created(cJSON_CreateBool(Call(mem, 0), b), "CreateBool")

CreateNumber == \E num \in Numbers : \E valueint \in IntCast(num) :
  Created(cJSON_CreateNumber(Call(mem, 0), num, valueint), "CreateNumber")

(* a = cJSON_CreateIntArray(numbers, count) and the like: the caller keeps   *)
(* the array.  A call that writes through a null pointer stops the process.  *)
CreatedBulk(r) ==
  /\ result' = IF r.ub THEN [kind |-> "crashed"] ELSE result
  /\ mem' = IF r.ub THEN mem ELSE r.st.mem
  /\ roots' = IF r.ub THEN roots ELSE roots \cup ({r.p} \ {NULL})
  /\ members' = IF r.ub \/ r.p = NULL THEN members
                ELSE [members EXCEPT ![r.p] = Children(r.st.mem, r.p)]
  /\ UNCHANGED <<refTo, surv, dfree, op>>

CreateIntArray == \E numbers \in SeqsUpTo(BulkInts, MaxCount) :
  CreatedBulk(cJSON_CreateIntArray(Call(mem, 0), numbers))

CreateFloatArray ==
  \E numbers \in SeqsUpTo(BulkNumbers, MaxCount), sat \in {INT_MIN, INT_MAX} :
    CreatedBulk(cJSON_CreateFloatArray(Call(mem, 0), numbers, sat))

CreateDoubleArray ==
  \E numbers \in SeqsUpTo(BulkNumbers, MaxCount), sat \in {INT_MIN, INT_MAX} :
    CreatedBulk(cJSON_CreateDoubleArray(Call(mem, 0), numbers, sat))

CreateStringArray == \E strings \in SeqsUpTo(BulkStrings, MaxCount) :
  CreatedBulk(cJSON_CreateStringArray(Call(mem, 0), strings))

(* text = cJSON_PrintUnformatted(item): the caller keeps the text, and what  *)
(* the tree was when it was printed.                                         *)
PrintUnformatted == \E item \in roots :
  /\ result' = [kind |-> "printed", shape |-> Shape(mem, item)]
  /\ input' = [kind |-> "text", open |-> <<>>,
               core |-> cJSON_PrintUnformatted(mem, item), trail |-> <<>>]
  /\ UNCHANGED <<mem, roots, members, refTo, surv, dfree, op, ep>>

(* The caller builds a tree bottom up in at most MaxBuild calls, holding at   *)
(* most MaxHeld nodes when it creates another; it prints the tree, deletes   *)
(* it, and parses the text.                                                  *)
Building ==
  /\ result.kind = "none"
  /\ calls < MaxBuild
  /\ calls' = calls + 1
  /\ UNCHANGED <<track, ep, input>>

BuildNext ==
  \/ /\ Building
     /\ Cardinality(roots) < MaxHeld
     /\ UNCHANGED result
     /\ \/ CreateNull
        \/ CreateTrue
        \/ CreateFalse
        \/ CreateBool
        \/ CreateNumber
        \/ CreateString
        \/ CreateArray
        \/ CreateObject
  \/ /\ Building
     /\ Cardinality(roots) < MaxHeld
     /\ \/ CreateIntArray
        \/ CreateFloatArray
        \/ CreateDoubleArray
        \/ CreateStringArray
  \/ /\ Building
     /\ UNCHANGED result
     /\ \/ AddItemToArray
        \/ AddItemToObject
  \/ /\ result.kind = "none"
     /\ Cardinality(roots) = 1
     /\ PrintUnformatted
     /\ UNCHANGED <<track, calls>>
  \/ /\ result.kind = "printed"
     /\ Delete
     /\ UNCHANGED <<track, calls, ep, input, result>>
  \/ /\ result.kind = "printed"
     /\ roots = {}
     /\ Parse
     /\ UNCHANGED <<track, calls>>
SpecBuild == BuildInit /\ [][BuildNext]_vars

----------------------------------------------------------------------------
(* The caller of the minifier.                                             *)

MinifyBytes == {Asc.space, Asc.lf, Asc.slash, Asc.star, Asc.quote, Asc.bslash, Asc.x}

(*  { "a": 1 /* c */ }  *)
MinifyExamples ==
  {<<Asc.lbrace, Asc.space, Asc.quote, Asc.a, Asc.quote, Asc.colon, Asc.space, Asc.d1,
     Asc.space, Asc.slash, Asc.star, Asc.space, Asc.x, Asc.space, Asc.star, Asc.slash,
     Asc.space, Asc.rbrace>>}

MinifyInputs ==
  [kind : {"text"}, open : {<<>>},
   core : SeqsUpTo(MinifyBytes, MaxText) \cup MinifyExamples, trail : {<<>>}]

MinifyInit == HeapInit /\ track = FALSE /\ input \in MinifyInputs

(* cJSON_Minify(json), json a buffer that holds the text.  A call that reads *)
(* past the text's terminator has undefined behaviour: it goes on with the   *)
(* bytes that are there, or the process stops (crashed).                     *)
Minify ==
  /\ result.kind = "none"
  /\ \E r0 \in {cJSON_Minify(Image(Text(input), <<>>))} :
     \E tail \in (IF r0.hi > Len(Text(input)) THEN Tails ELSE {<<>>}) :
     \E r \in {cJSON_Minify(Image(Text(input), tail))} :
     \E crashed \in (IF r.hi > Len(Text(input)) THEN BOOLEAN ELSE {FALSE}) :
       /\ result' = IF crashed THEN [kind |-> "crashed"]
                    ELSE [kind |-> "minify", out |-> r.out, hi |-> r.hi]
       /\ UNCHANGED <<mem, roots, members, refTo, surv, dfree, op, ep, input>>

MinifyNext == UNCHANGED <<track, calls>> /\ Minify
SpecMinify == MinifyInit /\ [][MinifyNext]_vars

----------------------------------------------------------------------------
(* The caller that parses a text and edits trees with every operation.     *)

(*  {"a":1}   [1]  *)
EditTexts == {<<Asc.lbrace, Asc.quote, Asc.a, Asc.quote, Asc.colon, Asc.d1, Asc.rbrace>>,
              <<Asc.lbracket, Asc.d1, Asc.rbracket>>}

EditInputs == [kind : {"text"}, open : {<<>>}, core : EditTexts, trail : {<<>>}]

Nodes == {p \in Addr : mem[p].kind = "node"}

(* Every block that a walk of the tree at c reads is allocated, and the     *)
(* walk ends: it does not come back to a node on its way (seen).            *)
RECURSIVE Intact(_, _, _)
Intact(m, c, seen) ==
  \/ c = NULL
  \/ /\ c \notin seen
     /\ m[c].kind = "node"
     /\ m[c].valuestring # NULL => m[m[c].valuestring].kind = "str"
     /\ m[c].string # NULL => m[m[c].string].kind = "str"
     /\ Intact(m, m[c].child, seen \cup {c})
     /\ Intact(m, m[c].next, seen \cup {c})

(* copy = cJSON_Duplicate(item, recurse), item any node of a tree that has  *)
(* no dangling pointer and no cycle: the caller keeps the copy.  op.which   *)
(* holds recurse (1 or 0), op.n the allocations the call requested.         *)
Duplicate ==
  \E item \in {p \in Nodes : Intact(mem, p, {})}, recurse \in BOOLEAN, failAt \in 0..MaxFailAt :
  \E r \in {cJSON_Duplicate(Call(mem, failAt), item, recurse)} :
    /\ mem' = r.st.mem
    /\ roots' = roots \cup ({r.p} \ {NULL})
    /\ members' = IF r.p = NULL THEN members
                  ELSE [p \in Addr |-> IF mem[p].kind = "free" /\ r.st.mem[p].kind = "node"
                                       THEN Children(r.st.mem, p) ELSE members[p]]
    /\ dfree' = (dfree \/ r.st.dfree)
    /\ op' = Record([NoOp EXCEPT !.kind = "Duplicate", !.c = item, !.ret = r.p,
                                 !.which = IF recurse THEN 1 ELSE 0,
                                 !.failed = r.st.failed, !.n = r.st.n])
    /\ UNCHANGED <<refTo, surv>>

AllInit == HeapInit /\ track = FALSE /\ input \in EditInputs

AllNext ==
  /\ calls < MaxEdits
  /\ calls' = calls + 1
  /\ UNCHANGED track
  /\ \/ /\ UNCHANGED <<ep, input, result>>
        /\ \/ Cardinality(roots) < MaxHeld /\ (CreateNull \/ CreateArray \/ CreateObject)
           \/ AddItemToArray
           \/ AddItemToObject
           \/ AddItemReferenceToArray
           \/ AddItemReferenceToObject
           \/ DetachItemFromArray
           \/ DetachItemFromObject
           \/ ReplaceItemInArray
           \/ ReplaceItemInObject
           \/ Duplicate
     \/ result.kind = "none" /\ roots = {} /\ Parse
SpecAll == AllInit /\ [][AllNext]_vars

(* The same caller, each call recorded in op. *)
DupInit == HeapInit /\ track = TRUE /\ input \in EditInputs
SpecDup == DupInit /\ [][AllNext]_vars

----------------------------------------------------------------------------
(* Claims about the tree editor. *)

(* The nodes reached from c by prev, at most fuel of them. *)
RECURSIVE BackFrom(_, _, _)
BackFrom(m, c, fuel) ==
  IF c = NULL \/ fuel = 0 \/ m[c].kind # "node" THEN <<>>
  ELSE <<c>> \o BackFrom(m, m[c].prev, fuel - 1)

Reverse(seq) == [i \in DOMAIN seq |-> seq[Len(seq) + 1 - i]]

(* C1: after any sequence of appends, detaches and replaces on a container, *)
(* the walk from child by next visits exactly the members that were         *)
(* appended or put in place and not since detached or replaced, in order;   *)
(* the head has no prev; n.next = m implies m.prev = n; no node occurs      *)
(* twice; and the walk back from the tail by prev ends at child.            *)
C1_SiblingList ==
  \A c \in Containers :
    LET ch == Children(mem, c) IN
    /\ ch = members[c]
    /\ \A i \in DOMAIN ch : \A j \in DOMAIN ch : i # j => ch[i] # ch[j]
    /\ ch # <<>> =>
         /\ mem[ch[1]].prev = NULL
         /\ mem[ch[Len(ch)]].next = NULL
         /\ BackFrom(mem, ch[Len(ch)], MaxAddr + 1) = Reverse(ch)
    /\ \A i \in DOMAIN ch :
         mem[ch[i]].next # NULL => mem[mem[ch[i]].next].prev = ch[i]

(* A replace in the middle of a list of three has happened. *)
C1_Witness ==
  \E c \in Containers :
    /\ Len(Children(mem, c)) >= 3
    /\ op.kind \in {"ReplaceItemInArray", "ReplaceItemInObject"}
    /\ op.ret # NULL
    /\ mem[c].child # Children(mem, c)[2]
    /\ mem[Children(mem, c)[2]].kind = "node"
    /\ members[c][2] \notin {members[c][1], members[c][3]}

(* C2: an item the caller holds, and that a container refers to or did     *)
(* until the container was deleted, has every block of its subtree         *)
(* allocated; it can be deleted afterwards; and nothing is freed twice.    *)
Referenced == {refTo[r] : r \in Addr} \ {NULL}

C2_ReferenceSafety ==
  /\ ~dfree
  /\ \A x \in roots \cap (Referenced \cup surv) :
       \A b \in OwnedNode(mem, x) : mem[b].kind # "free"
  /\ (op.kind = "Delete" /\ op.wasSurv) => mem[op.c].kind = "free"

(* An item that outlived the container referring to it has been deleted. *)
C2_Witness == op.kind = "Delete" /\ op.wasSurv /\ ~dfree

(* C3: when the allocator returns null for the copy of the key, the         *)
(* container's member list is what it was before the call.                  *)
C3_FailedMutationLeavesTree ==
  [][(op'.kind \in {"AddItemToObject", "ReplaceItemInObject"} /\ op'.failed)
       => MemberList(mem', op'.c) = MemberList(mem, op'.c)]_vars

(* C4: detach_from_array with an index out of range returns absent and     *)
(* leaves the elements as they were; with an index in range it returns     *)
(* that element, its next and prev absent.                                  *)
C4_DetachFromArray ==
  [][op'.kind = "DetachItemFromArray" =>
       LET pre == Children(mem, op'.c) IN
       IF op'.which < 0 \/ op'.which >= Len(pre)
       THEN op'.ret = NULL /\ Children(mem', op'.c) = pre
       ELSE /\ op'.ret = pre[op'.which + 1]
            /\ mem'[op'.ret].next = NULL
            /\ mem'[op'.ret].prev = NULL]_vars

----------------------------------------------------------------------------
(* Claims about the parser. *)

(* A string literal is open at the end of the text: scanning from byte i,  *)
(* inside a literal or not.                                                *)
RECURSIVE OpenAtEnd(_, _, _)
OpenAtEnd(text, i, inside) ==
  IF i > Len(text) THEN inside
  ELSE IF ~inside THEN OpenAtEnd(text, i + 1, text[i] = Asc.quote)
  ELSE IF text[i] = Asc.bslash THEN OpenAtEnd(text, i + 2, TRUE)
  ELSE OpenAtEnd(text, i + 1, text[i] # Asc.quote)

Unterminated(text) == OpenAtEnd(text, 1, FALSE)

(* C5: when a string literal of the text, a value or a key, at top level   *)
(* or nested, has no closing quote before the end of the text, the parse   *)
(* returns no tree, whether or not it must consume the whole text.         *)
C5_UnterminatedStringFails ==
  (result.kind = "parse" /\ Unterminated(Text(input))) => result.ret = NULL

(* The offset of the first byte above 0x20 in bytes, counted from 1; 0: none. *)
RECURSIVE FirstAbove32(_, _)
FirstAbove32(bytes, i) ==
  IF i > Len(bytes) THEN 0
  ELSE IF bytes[i] > 32 THEN i ELSE FirstAbove32(bytes, i + 1)

ValueThenTrail == input.open = <<>> /\ input.core \in WellFormed

C7_FailedParseFreesAll ==
  [][(result.kind = "none" /\ result'.kind = "parse" /\ result'.ret = NULL)
       => /\ Live(mem') = Live(mem)
          /\ \A p \in Live(mem) : mem'[p] = mem[p]
          /\ dfree' = dfree]_vars

(* A parse failed after it had allocated three blocks or more, next to a    *)
(* string the caller holds.                                                 *)
C7_Witness ==
  /\ result.kind = "parse" /\ result.ret = NULL
  /\ result.n >= 3
  /\ roots # {}
  /\ Live(mem) # {}

----------------------------------------------------------------------------
(* Claims about the printer and the minifier. *)

(* C8: the text printed (unformatted) for a tree built with the            *)
(* constructors and the appends parses, when the allocator serves the      *)
(* parse, into a tree of the same shape: same kinds, same number and       *)
(* string values, same keys, same order of members at every level.         *)
C8_RoundTrip ==
  (result.kind = "parse" /\ result.before.kind = "printed" /\ ~result.failed) =>
    /\ result.ret # NULL
    /\ Shape(mem, result.ret) = result.before.shape

(* The text without white space outside string literals, without // and    *)
(* /* */ comments outside string literals, and with every byte of a string *)
(* literal kept; mode is where the scan is: "out", "line", "block", "str". *)
RECURSIVE Minified(_, _, _)
Minified(text, i, mode) ==
  IF i > Len(text) THEN <<>>
  ELSE CASE mode = "out" ->
              IF text[i] \in {Asc.space, Asc.tab, Asc.cr, Asc.lf} THEN Minified(text, i + 1, "out")
              ELSE IF text[i] = Asc.slash /\ ByteAt(text, i + 1) = Asc.slash
              THEN Minified(text, i + 2, "line")
              ELSE IF text[i] = Asc.slash /\ ByteAt(text, i + 1) = Asc.star
              THEN Minified(text, i + 2, "block")
              ELSE <<text[i]>> \o Minified(text, i + 1, IF text[i] = Asc.quote THEN "str" ELSE "out")
         [] mode = "line" ->
              Minified(text, i + 1, IF text[i] = Asc.lf THEN "out" ELSE "line")
         [] mode = "block" ->
              IF text[i] = Asc.star /\ ByteAt(text, i + 1) = Asc.slash
              THEN Minified(text, i + 2, "out")
              ELSE Minified(text, i + 1, "block")
         [] mode = "str" ->
              IF text[i] = Asc.bslash /\ i < Len(text)
              THEN <<text[i], text[i + 1]>> \o Minified(text, i + 2, "str")
              ELSE <<text[i]>> \o Minified(text, i + 1, IF text[i] = Asc.quote THEN "out" ELSE "str")

(* C9: for every text, minify leaves the text without the white space and  *)
(* the comments that are outside string literals, every byte of a string   *)
(* literal copied unchanged.                                               *)
C9_Minify ==
  result.kind = "minify" => result.out = Minified(Text(input), 1, "out")

PrintedNumber(num) ==
  /\ result.kind = "printed"
  /\ result.shape.type = "Number"
  /\ result.shape.num = num

(* C10 as amended: the number 3 prints as the text 3, and the number 1e12  *)
(* prints as the plain digit string 1000000000000 (a whole number below    *)
(* 1e60 in magnitude prints with "%.0f", whatever its magnitude).          *)
C10_NumberRendering ==
  /\ PrintedNumber([m |-> 3, e |-> 0]) => Text(input) = <<Digit(3)>>
  /\ PrintedNumber([m |-> 1, e |-> 12]) => Text(input) = <<Digit(1)>> \o Zeros(12)

(* The number 1e12 has been printed. *)
C10_Witness ==
  PrintedNumber([m |-> 1, e |-> 12]) /\ Len(Text(input)) = 13

(* C10 as stated: the number 3 prints as the text 3, and the number 1e12   *)
(* prints in exponential form, not as the digit string 1000000000000.      *)
C10_Exponential ==
  /\ PrintedNumber([m |-> 3, e |-> 0]) => Text(input) = <<Digit(3)>>
  /\ PrintedNumber([m |-> 1, e |-> 12]) =>
       /\ \E i \in DOMAIN Text(input) : Text(input)[i] = Asc.e
       /\ Text(input) # <<Digit(1)>> \o Zeros(12)

----------------------------------------------------------------------------
(* Claims about keys, duplicates and the error pointer. *)

(* The position of p in seq (0: not in it). *)
IndexOf(seq, p) == IF \E i \in DOMAIN seq : seq[i] = p
                   THEN CHOOSE i \in DOMAIN seq : seq[i] = p ELSE 0

(* C11: a cJSON_ReplaceItemInObject that finds a member under a key equal   *)
(* to the lookup key but for letter case, and whose allocation is served,   *)
(* puts newitem in that member's position, destroys the old member, leaves  *)
(* the other members and their order unchanged, and gives newitem the old   *)
(* member's key, byte for byte.                                             *)
C11_ReplaceKeepsKey ==
  [][(op'.kind = "ReplaceItemInObject" /\ op'.ret # NULL /\ ~op'.failed) =>
       LET before == Children(mem, op'.c)
           after == Children(mem', op'.c)
           i == IndexOf(before, op'.ret)
       IN /\ i > 0
          /\ Len(after) = Len(before)
          /\ \A j \in DOMAIN before : j # i => after[j] = before[j]
          /\ after[i] \in roots
          /\ mem'[op'.ret].kind = "free"
          /\ KeyOf(mem', after[i]) = KeyOf(mem, op'.ret)]_vars

(* C12: whatever the caller has done with parse, the constructors, the     *)
(* appends, the references, detach, replace and duplicate, no child of an   *)
(* Array node has a key.                                                    *)
C12_ArrayChildrenKeyless ==
  \A a \in Nodes : mem[a].type = "Array" =>
    \A i \in DOMAIN Children(mem, a) : mem[Children(mem, a)[i]].string = NULL

C14_DecoderFits == result.kind = "parse" => ~result.ovf

(* C15: a parse reads no byte after the text's terminator: the largest      *)
(* offset it reads is at most the length of the text.                       *)
C15_NoReadPastEnd == result.kind = "parse" => result.hi <= Len(Text(input))

(* C16: after a parse call in which no allocation failed, the error         *)
(* pointer is that call's: an offset in 0..length of the call's text when   *)
(* the call returned null, and null when it returned a tree.                *)
C16_ErrorIsLastCall ==
  (result.kind = "parse" /\ ~result.failed) =>
    IF result.ret = NULL THEN ep >= 0 /\ ep <= Len(Text(input))
    ELSE ep = NoPos

============================================================================
